---- MODULE Spec2Model ----
(***************************************************************************)
(* Model of the routesim core: the topology entity model of                *)
(* core/src/simulation/TopologyModels.ts (NetworkInterface, Link, Device,  *)
(* TopologyManager) as a heap of objects plus the registry that owns them. *)
(*                                                                         *)
(* Objects are numbered in order of construction.  A NetworkInterface, a   *)
(* Link and a routing engine keep their number for ever, also after the    *)
(* registry has dropped them, because other objects may still point at     *)
(* them (a Link keeps its two endpoint objects, an interface keeps its     *)
(* link).                                                                  *)
(***************************************************************************)
EXTENDS Integers, Sequences, FiniteSets, TLC

\* ---- bounds of the model ------------------------------------------------
MaxIfaces == 2      \* NetworkInterface objects ever constructed
MaxLinks == 2       \* Link objects ever constructed
MaxEngines == 3     \* RoutingEngine objects ever constructed

DeviceIds == {"Router1", "Router2"}
IfNames == {"eth0", "eth1"}
Protocols == {"static", "ospf"}
Statuses == {"up", "down"}

\* `link: Link | null`: the null reference
NoLink == 0

VARIABLES
  devices,      \* TopologyManager.devices: id -> Device
  links,        \* TopologyManager.links: set of Link objects
  intfObjs,     \* heap of NetworkInterface objects
  linkObjs,     \* heap of Link objects
  engineObjs,   \* heap of RoutingEngine objects
  last,         \* the name of the call that produced this state
  rib,          \* Device.routingTable of the device the engines are attached to
  staticRoutes, \* StaticRoutingEngine.staticRoutes
  ripTable,     \* RipRoutingEngine.routingTable
  ls,           \* the fields of an OspfRoutingEngine or IsisRoutingEngine
  now,          \* the clock Date.now() reads
  sent,         \* the device.sendPacket calls of the last engine call
  arg,          \* the arguments of the last engine call
  bgp,          \* the fields of a BgpRoutingEngine
  timers        \* the pending setTimeout / setInterval timers

\* the state of the engines of routing/*.ts
engineVars == <<rib, staticRoutes, ripTable, ls, now, sent, arg, bgp, timers>>

vars == <<devices, links, intfObjs, linkObjs, engineObjs, last, engineVars>>

\* ---- constructors -------------------------------------------------------

\* new NetworkInterface(name)
NewNetworkInterface(name) ==
  [name |-> name, status |-> "down", link |-> NoLink]

\* new Link(interfaceA, interfaceB), without the two back-reference writes
NewLink(a, b) ==
  [interfaceA |-> a, interfaceB |-> b, status |-> "up"]

\* new Device(id): empty interface map, no engines
NewDevice(id) ==
  [id |-> id, interfaces |-> <<>>, routingEngines |-> <<>>]

\* a freshly constructed engine of the given protocol; inits counts the
\* calls of init, events and packets record the calls of
\* handleInterfaceChange and handlePacket
NewEngine(proto) ==
  [protocol |-> proto, inits |-> 0, events |-> <<>>, packets |-> <<>>]

\* ---- Map<string, NetworkInterface> in insertion order ---------------------

MapHas(m, name) == \E k \in 1..Len(m) : m[k].name = name

MapGet(m, name) ==
  IF MapHas(m, name)
    THEN m[CHOOSE k \in 1..Len(m) : m[k].name = name].intf
    ELSE NoLink

\* Map.set: a new key is appended, an existing key keeps its position
MapSet(m, name, i) ==
  IF MapHas(m, name)
    THEN [k \in 1..Len(m) |->
            IF m[k].name = name THEN [name |-> name, intf |-> i] ELSE m[k]]
    ELSE Append(m, [name |-> name, intf |-> i])

MapValues(m) == {m[k].intf : k \in 1..Len(m)}

\* ---- lookups --------------------------------------------------------------

Registered == DOMAIN devices

\* the interface objects reachable through the registry
RegisteredIntfs ==
  UNION {MapValues(devices[d].interfaces) : d \in Registered}

\* the devices whose interface map holds the object (server.ts
\* getDeviceIdByInterface)
OwnersOf(i) ==
  {d \in Registered : i \in MapValues(devices[d].interfaces)}

\* ---- the routing engines: values and constructors -------------------------

\* device.name of the device the engines of the engine specifications are
\* attached to
LocalName == "R1"

RouterIds == {"R1", "R2", "R3"}

\* the prefix a router announces, when it announces one
PrefixOf(r) == CASE r = "R1" -> "10.0.1.0/24"
                 [] r = "R2" -> "10.0.2.0/24"
                 [] OTHER -> "10.0.3.0/24"

\* previous.get(x) of a node that has no entry
Undefined == ""

\* Map<string, V> in insertion order, as a sequence of [key, val]
KeysOf(m) == {m[k].key : k \in 1..Len(m)}

Get(m, key) == m[CHOOSE k \in 1..Len(m) : m[k].key = key].val

\* Map.set: a new key goes to the end, an existing key keeps its place
Set(m, key, val) ==
  IF key \in KeysOf(m)
    THEN [k \in 1..Len(m) |->
            IF m[k].key = key THEN [key |-> key, val |-> val] ELSE m[k]]
    ELSE Append(m, [key |-> key, val |-> val])

\* Map.delete
Delete(m, key) == SelectSeq(m, LAMBDA e : e.key # key)

\* the field initialisers of OspfRoutingEngine / IsisRoutingEngine
NewLinkState(proto) ==
  [protocol |-> proto, neighbors |-> <<>>, lsdb |-> <<>>, routingTable |-> <<>>]

\* the field initialisers of BgpRoutingEngine
NewBgp ==
  [peers |-> <<>>, adjRibIn |-> <<>>, adjRibOut |-> <<>>, routingTable |-> <<>>]

\* no engine has done anything yet
EnginesIdle ==
  /\ rib = <<>>
  /\ staticRoutes = <<>>
  /\ ripTable = <<>>
  /\ ls = NewLinkState("ospf")
  /\ now = 0
  /\ sent = <<>>
  /\ arg = <<>>
  /\ bgp = NewBgp
  /\ timers = {}

Init ==
  /\ EnginesIdle
  /\ devices = [d \in {} |-> NewDevice(d)]
  /\ links = {}
  /\ intfObjs = <<>>
  /\ linkObjs = <<>>
  /\ engineObjs = <<>>
  /\ last = "new"

\* ---- TopologyManager ------------------------------------------------------

\* addDevice(id): devices.set(id, new Device(id)), whatever was there
addDevice(id) ==
  /\ devices' = [d \in Registered \cup {id} |->
                   IF d = id THEN NewDevice(id) ELSE devices[d]]
  /\ last' = "addDevice"
  /\ UNCHANGED engineVars
  /\ UNCHANGED <<links, intfObjs, linkObjs, engineObjs>>

\* connectInterfaces(intfA, intfB): new Link(intfA, intfB) writes both
\* back-references, then links.add(link)
connectInterfaces(a, b) ==
  /\ Len(linkObjs) < MaxLinks
  /\ LET l == Len(linkObjs) + 1 IN
       /\ linkObjs' = Append(linkObjs, NewLink(a, b))
       /\ intfObjs' = [i \in 1..Len(intfObjs) |->
                         IF i \in {a, b}
                           THEN [intfObjs[i] EXCEPT !.link = l]
                           ELSE intfObjs[i]]
       /\ links' = links \cup {l}
  /\ last' = "connectInterfaces"
  /\ UNCHANGED engineVars
  /\ UNCHANGED <<devices, engineObjs>>

\* the body of removeLink(link) on a heap st = [intfObjs, links]:
\* link.interfaceA.link = null; link.interfaceB.link = null;
\* links.delete(link)
RemoveLinkIn(st, l) ==
  [intfObjs |-> [i \in 1..Len(st.intfObjs) |->
                   IF i \in {linkObjs[l].interfaceA, linkObjs[l].interfaceB}
                     THEN [st.intfObjs[i] EXCEPT !.link = NoLink]
                     ELSE st.intfObjs[i]],
   links |-> st.links \ {l}]

\* removeLink(link)
removeLink(l) ==
  /\ LET st == RemoveLinkIn([intfObjs |-> intfObjs, links |-> links], l) IN
       /\ intfObjs' = st.intfObjs
       /\ links' = st.links
  /\ last' = "removeLink"
  /\ UNCHANGED engineVars
  /\ UNCHANGED <<devices, linkObjs, engineObjs>>

\* the loop of removeDevice over device.interfaces.values(), from position k:
\* if (intf.link) this.removeLink(intf.link)
RECURSIVE RemoveLinksOf(_, _, _)
RemoveLinksOf(m, k, st) ==
  IF k > Len(m)
    THEN st
    ELSE LET l == st.intfObjs[m[k].intf].link IN
           RemoveLinksOf(m, k + 1,
                         IF l # NoLink THEN RemoveLinkIn(st, l) ELSE st)

\* removeDevice(id): returns at once when the id is not registered
removeDevice(id) ==
  /\ IF id \notin Registered
       THEN UNCHANGED <<devices, intfObjs, links>>
       ELSE LET st == RemoveLinksOf(devices[id].interfaces, 1,
                                    [intfObjs |-> intfObjs, links |-> links])
            IN /\ intfObjs' = st.intfObjs
               /\ links' = st.links
               /\ devices' = [d \in Registered \ {id} |-> devices[d]]
  /\ last' = "removeDevice"
  /\ UNCHANGED engineVars
  /\ UNCHANGED <<linkObjs, engineObjs>>

\* ---- Device ---------------------------------------------------------------

\* Device.addInterface(name): interfaces.set(name, new NetworkInterface(name))
addInterface(id, name) ==
  /\ id \in Registered
  /\ Len(intfObjs) < MaxIfaces
  /\ LET i == Len(intfObjs) + 1 IN
       /\ intfObjs' = Append(intfObjs, NewNetworkInterface(name))
       /\ devices' = [devices EXCEPT
                        ![id].interfaces = MapSet(@, name, i)]
  /\ last' = "addInterface"
  /\ UNCHANGED engineVars
  /\ UNCHANGED <<links, linkObjs, engineObjs>>

\* routingEngines.some(e => e.protocol === engine.protocol)
HasProtocol(id, proto) ==
  \E k \in 1..Len(devices[id].routingEngines) :
    engineObjs[devices[id].routingEngines[k]].protocol = proto

\* addRoutingEngine without the `some` test: every engine is pushed and
\* initialised
addRoutingEngine_NoProtocolTest(id, proto) ==
  /\ id \in Registered
  /\ Len(engineObjs) < MaxEngines
  /\ devices' = [devices EXCEPT
                   ![id].routingEngines = Append(@, Len(engineObjs) + 1)]
  /\ engineObjs' = Append(engineObjs, [NewEngine(proto) EXCEPT !.inits = 1])
  /\ last' = "addRoutingEngine"
  /\ UNCHANGED engineVars
  /\ UNCHANGED <<links, intfObjs, linkObjs>>

\* Device.addRoutingEngine(engine) with a newly constructed engine of the
\* given protocol: pushed and initialised unless the protocol is present
addRoutingEngine(id, proto) ==
  /\ id \in Registered
  /\ Len(engineObjs) < MaxEngines
  /\ LET e == Len(engineObjs) + 1 IN
       IF ~HasProtocol(id, proto)
         THEN /\ devices' = [devices EXCEPT
                               ![id].routingEngines = Append(@, e)]
              /\ engineObjs' = Append(engineObjs,
                                 [NewEngine(proto) EXCEPT !.inits = 1])
         ELSE /\ devices' = devices
              /\ engineObjs' = Append(engineObjs, NewEngine(proto))
  /\ last' = "addRoutingEngine"
  /\ UNCHANGED engineVars
  /\ UNCHANGED <<links, intfObjs, linkObjs>>

\* Device.sendPacket(interfaceId, packet): logs the packet, nothing else
sendPacket(id, interfaceId, packet) ==
  /\ id \in Registered
  /\ last' = "sendPacket"
  /\ UNCHANGED engineVars
  /\ UNCHANGED <<devices, links, intfObjs, linkObjs, engineObjs>>

\* ---- NetworkInterface and Link -------------------------------------------

\* NetworkInterface.setStatus(status): this.status = status
NetworkInterface_setStatus(i, status) ==
  /\ intfObjs' = [intfObjs EXCEPT ![i].status = status]
  /\ last' = "NetworkInterface.setStatus"
  /\ UNCHANGED engineVars
  /\ UNCHANGED <<devices, links, linkObjs, engineObjs>>

\* Link.setStatus(status): this.status = status, then setStatus(status) on
\* interfaceA and on interfaceB
Link_setStatus(l, status) ==
  /\ linkObjs' = [linkObjs EXCEPT ![l].status = status]
  /\ intfObjs' = [i \in 1..Len(intfObjs) |->
                    IF i \in {linkObjs[l].interfaceA, linkObjs[l].interfaceB}
                      THEN [intfObjs[i] EXCEPT !.status = status]
                      ELSE intfObjs[i]]
  /\ last' = "Link.setStatus"
  /\ UNCHANGED engineVars
  /\ UNCHANGED <<devices, links, engineObjs>>

\* ---- the topology registry: the calls a client of TopologyManager makes ----

Next ==
  \/ \E id \in DeviceIds : addDevice(id)
  \/ \E id \in DeviceIds : removeDevice(id)
  \/ \E id \in DeviceIds, name \in IfNames : addInterface(id, name)
  \/ \E a \in RegisteredIntfs, b \in RegisteredIntfs : connectInterfaces(a, b)
  \/ \E l \in links : removeLink(l)
  \/ \E i \in RegisteredIntfs, s \in Statuses : NetworkInterface_setStatus(i, s)
  \/ \E l \in links, s \in Statuses : Link_setStatus(l, s)

Spec == Init /\ [][Next]_vars

\* ---- devices with engines, on the topology of createInitialTopology ------

Packets == [type : Protocols]

\* server.ts createInitialTopology: Router1 and Router2, an eth0 on each,
\* and a link between the two
InitDevice ==
  /\ EnginesIdle
  /\ devices = [d \in DeviceIds |->
                  [NewDevice(d) EXCEPT
                     !.interfaces =
                        <<[name |-> "eth0",
                           intf |-> IF d = "Router1" THEN 1 ELSE 2]>>]]
  /\ intfObjs = <<[NewNetworkInterface("eth0") EXCEPT !.link = 1],
                  [NewNetworkInterface("eth0") EXCEPT !.link = 1]>>
  /\ linkObjs = <<NewLink(1, 2)>>
  /\ links = {1}
  /\ engineObjs = <<>>
  /\ last = "createInitialTopology"

NextDevice ==
  \/ \E id \in DeviceIds, proto \in Protocols : addRoutingEngine(id, proto)
  \/ \E id \in DeviceIds, name \in IfNames, p \in Packets :
       sendPacket(id, name, p)
  \/ \E i \in RegisteredIntfs, s \in Statuses : NetworkInterface_setStatus(i, s)
  \/ \E l \in links, s \in Statuses : Link_setStatus(l, s)
  \/ \E l \in links : removeLink(l)
  \/ \E id \in DeviceIds : removeDevice(id)
  \/ \E id \in DeviceIds : addDevice(id)

SpecDevice == InitDevice /\ [][NextDevice]_vars

\* ---- helpers of the properties ------------------------------------------

\* the engines attached to a registered device
EnginesOf(d) ==
  {devices[d].routingEngines[k] : k \in 1..Len(devices[d].routingEngines)}

\* the two endpoint objects of a link
EndsOf(l) == {linkObjs[l].interfaceA, linkObjs[l].interfaceB}

\* the other end of link l, seen from interface object i
PeerOf(l, i) ==
  IF linkObjs[l].interfaceA = i
    THEN linkObjs[l].interfaceB
    ELSE linkObjs[l].interfaceA

\* ---- properties -----------------------------------------------------------

\* C1: in every state reached by addDevice, addInterface, connectInterfaces,
\* removeLink and removeDevice, every link of the registry is the link of
\* both its endpoints, and the link of every interface of a registered
\* device is null or a link of the registry that has the interface as an
\* endpoint.
C1_LinkBackReferencesConsistent ==
  /\ \A l \in links :
       /\ intfObjs[linkObjs[l].interfaceA].link = l
       /\ intfObjs[linkObjs[l].interfaceB].link = l
  /\ \A i \in RegisteredIntfs :
       \/ intfObjs[i].link = NoLink
       \/ /\ intfObjs[i].link \in links
          /\ i \in EndsOf(intfObjs[i].link)

\* C2: a connectInterfaces call on an interface that already has a link is
\* rejected: the set of links of the registry and the link of both
\* interfaces stay as they were.
C2_AlreadyLinkedRejected ==
  [][\A a \in RegisteredIntfs, b \in RegisteredIntfs :
       (/\ connectInterfaces(a, b)
        /\ (intfObjs[a].link # NoLink \/ intfObjs[b].link # NoLink))
       => /\ links' = links
          /\ intfObjs'[a].link = intfObjs[a].link
          /\ intfObjs'[b].link = intfObjs[b].link]_vars

\* C3: connectInterfaces rejects two interfaces of one device, so every link
\* of the registry joins interfaces of two distinct devices.
C3_LinksJoinDistinctDevices ==
  \A l \in links :
    \A dA \in OwnersOf(linkObjs[l].interfaceA),
       dB \in OwnersOf(linkObjs[l].interfaceB) : dA # dB

\* C4: addDevice with an id that is already registered is rejected: the
\* registered device, its interfaces and the links stay as they were.
C4_DuplicateIdRejected ==
  [][\A id \in Registered :
       addDevice(id)
       => /\ devices' = devices
          /\ intfObjs' = intfObjs
          /\ links' = links]_vars

\* C5: after removeDevice of a registered device the device is gone from
\* the registry, no link of the registry has an endpoint that belonged to
\* the device, and every interface that was at the other end of one of its
\* links has a null link.
C5_RemoveDeviceRemovesItsLinks ==
  [][\A id \in Registered :
       removeDevice(id)
       => LET own == MapValues(devices[id].interfaces) IN
            /\ id \notin DOMAIN devices'
            /\ \A l \in links' : EndsOf(l) \cap own = {}
            /\ \A l \in links : \A i \in EndsOf(l) \cap own :
                 intfObjs'[PeerOf(l, i)].link = NoLink]_vars

\* C6: removeLink calls handleInterfaceChange with a down event for the
\* endpoint on every engine of the two devices that own the endpoints.
C6_RemoveLinkEmitsDownEvents ==
  [][\A l \in links :
       removeLink(l)
       => \A i \in EndsOf(l) : \A d \in OwnersOf(i) : \A e \in EnginesOf(d) :
            engineObjs'[e].events =
              Append(engineObjs[e].events,
                     [interfaceId |-> intfObjs[i].name, status |-> "down"])]_vars

\* C7: every change of the status of an interface, by
\* NetworkInterface.setStatus or by Link.setStatus, calls
\* handleInterfaceChange with the name of the interface and the new status
\* on every engine of the device that owns the interface.
C7_StatusChangeNotifiesEngines ==
  [][/\ \A i \in RegisteredIntfs, s \in Statuses :
          (NetworkInterface_setStatus(i, s) /\ intfObjs[i].status # s)
          => \A d \in OwnersOf(i) : \A e \in EnginesOf(d) :
               engineObjs'[e].events =
                 Append(engineObjs[e].events,
                        [interfaceId |-> intfObjs[i].name, status |-> s])
     /\ \A l \in links, s \in Statuses :
          Link_setStatus(l, s)
          => \A i \in EndsOf(l) : \A d \in OwnersOf(i) : \A e \in EnginesOf(d) :
               intfObjs[i].status # s
               => engineObjs'[e].events =
                    Append(engineObjs[e].events,
                           [interfaceId |-> intfObjs[i].name, status |-> s])]_vars

\* C8: the status of a link of the registry is up exactly when both its
\* endpoints are up.
C8_LinkStatusIsAndOfEndpoints ==
  \A l \in links :
    linkObjs[l].status = "up"
    <=> /\ intfObjs[linkObjs[l].interfaceA].status = "up"
        /\ intfObjs[linkObjs[l].interfaceB].status = "up"

\* no two engines attached to one device have the same protocol
UniqueProtocols ==
  \A d \in Registered :
    \A j \in 1..Len(devices[d].routingEngines),
       k \in 1..Len(devices[d].routingEngines) :
      j # k => engineObjs[devices[d].routingEngines[j]].protocol
                 # engineObjs[devices[d].routingEngines[k]].protocol

\* an addRoutingEngine call with a protocol the device already has leaves
\* the engine list as it was and does not call init on the new engine
RejectedEngineUntouched ==
  \A id \in Registered, proto \in Protocols :
    (addRoutingEngine(id, proto) /\ HasProtocol(id, proto))
    => /\ devices'[id].routingEngines = devices[id].routingEngines
       /\ engineObjs'[Len(engineObjs) + 1].inits = 0

\* C9: no two engines attached to a device have the same protocol, and
\* attaching an engine whose protocol is present leaves the engine list
\* unchanged and does not call init on the rejected engine.
C9_OneEnginePerProtocol ==
  [](UniqueProtocols) /\ [][RejectedEngineUntouched]_vars

\* C9 (witness): a device has an engine attached and initialised, and a
\* second engine of the same protocol was offered to it and turned away.
C9_Witness ==
  /\ last = "addRoutingEngine"
  /\ \E d \in Registered : \E e \in EnginesOf(d) :
       /\ engineObjs[e].inits = 1
       /\ engineObjs[Len(engineObjs)].protocol = engineObjs[e].protocol
       /\ engineObjs[Len(engineObjs)].inits = 0
       /\ Len(engineObjs) \notin EnginesOf(d)

\* C10: sendPacket on an interface whose link is up calls handlePacket on
\* exactly the engine of the peer device whose protocol is the packet's;
\* on an interface without a link, or with a link that is down, no engine
\* is called.
C10_SendPacketDelivers ==
  [][\A id \in Registered, name \in IfNames, p \in Packets :
       sendPacket(id, name, p)
       => LET i == MapGet(devices[id].interfaces, name)
              l == IF i = NoLink THEN NoLink ELSE intfObjs[i].link
          IN IF l # NoLink /\ linkObjs[l].status = "up"
               THEN \A d \in OwnersOf(PeerOf(l, i)) : \A e \in EnginesOf(d) :
                      engineObjs'[e].packets =
                        IF engineObjs[e].protocol = p.type
                          THEN Append(engineObjs[e].packets, p)
                          ELSE engineObjs[e].packets
               ELSE engineObjs' = engineObjs]_vars

\* ==== the routing engines ==================================================

topologyVars == <<devices, links, intfObjs, linkObjs, engineObjs>>

\* an empty TopologyManager: the engine specifications leave it alone
TopologyIdle ==
  /\ devices = [d \in {} |-> NewDevice(d)]
  /\ links = {}
  /\ intfObjs = <<>>
  /\ linkObjs = <<>>
  /\ engineObjs = <<>>

\* ---- OspfRoutingEngine / IsisRoutingEngine: recomputeRoutes ---------------

\* the cost of a hop: (distances.get(u) ?? Infinity) + 10
HopCost == 10

\* the metric of a node without a distance: distances.get(routerId) ?? 10
DefaultMetric == 10

\* administrativeDistance: 110 (OSPF), 115 (IS-IS)
AdministrativeDistance(proto) == IF proto = "ospf" THEN 110 ELSE 115

\* lsa.neighbors || [] and lsa.prefixes || []
NeighborsOf(lsa) == IF "neighbors" \in DOMAIN lsa THEN lsa.neighbors ELSE <<>>
PrefixesOf(lsa) == IF "prefixes" \in DOMAIN lsa THEN lsa.prefixes ELSE <<>>

\* previous.get(x)
PreviousGet(previous, x) ==
  IF x \in DOMAIN previous THEN previous[x] ELSE Undefined

\* the scan of the queue: the first node of least known distance, none when
\* every node of the queue is at Infinity
MinNode(queue, distances) ==
  LET cand == {k \in 1..Len(queue) : queue[k] \in DOMAIN distances} IN
    IF cand = {}
      THEN Undefined
      ELSE queue[CHOOSE k \in cand : \A j \in cand :
                   \/ distances[queue[k]] < distances[queue[j]]
                   \/ distances[queue[k]] = distances[queue[j]] /\ k <= j]

\* the loop over the neighbors of u, from position k; dp = [distances,
\* previous]
RECURSIVE Relax(_, _, _, _, _)
Relax(ns, k, u, visited, dp) ==
  IF k > Len(ns)
    THEN dp
    ELSE LET v == ns[k]
             alt == dp.distances[u] + HopCost
         IN Relax(ns, k + 1, u, visited,
                  IF /\ v \notin visited
                     /\ (v \notin DOMAIN dp.distances \/ alt < dp.distances[v])
                    THEN [distances |-> (v :> alt) @@ dp.distances,
                          previous |-> (v :> u) @@ dp.previous]
                    ELSE dp)

\* while (queue.size > 0) { ... if (u === null) break; ... }
RECURSIVE Dijkstra(_, _, _, _)
Dijkstra(graph, queue, visited, dp) ==
  LET u == MinNode(queue, dp.distances) IN
    IF Len(queue) = 0 \/ u = Undefined
      THEN dp
      ELSE Dijkstra(graph, SelectSeq(queue, LAMBDA x : x # u),
                    visited \cup {u},
                    Relax(NeighborsOf(Get(graph, u)), 1, u,
                          visited \cup {u}, dp))

\* while (prev && prev !== this.device.name) { nextHop = prev; ... }
RECURSIVE FirstHop(_, _, _, _)
FirstHop(previous, self, nextHop, prev) ==
  IF prev # Undefined /\ prev # self
    THEN FirstHop(previous, self, prev, PreviousGet(previous, prev))
    ELSE nextHop

\* the entries pushed for one record of the graph
EntriesOf(e, dp, self, proto) ==
  IF e.key = self
    THEN <<>>
    ELSE [k \in 1..Len(PrefixesOf(e.val)) |->
            [destination |-> PrefixesOf(e.val)[k],
             nextHop |-> FirstHop(dp.previous, self, e.key,
                                  PreviousGet(dp.previous, e.key)),
             metric |-> IF e.key \in DOMAIN dp.distances
                          THEN dp.distances[e.key]
                          ELSE DefaultMetric,
             protocol |-> proto,
             administrativeDistance |-> AdministrativeDistance(proto)]]

\* the loop over graph.entries() that fills newTable, from position k
RECURSIVE BuildTable(_, _, _, _, _)
BuildTable(graph, k, dp, self, proto) ==
  IF k > Len(graph)
    THEN <<>>
    ELSE EntriesOf(graph[k], dp, self, proto)
           \o BuildTable(graph, k + 1, dp, self, proto)

\* recomputeRoutes(): the new routingTable of an engine on device `self`
\* with the given lsdb
recomputeRoutes(lsdb, self, proto) ==
  LET queue == [k \in 1..Len(lsdb) |-> lsdb[k].key]
      dp == Dijkstra(lsdb, queue, {},
                     [distances |-> (self :> 0),
                      previous |-> [x \in {} |-> Undefined]])
  IN BuildTable(lsdb, 1, dp, self, proto)

\* ---- recomputeRoutes on a database written into the engine ----------------

LinkStateProtocols == {"ospf", "isis"}

\* the lists of neighbors a record of router r may carry
NeighborLists(r) ==
  LET others == RouterIds \ {r} IN
    {<<>>} \cup {<<a>> : a \in others}
           \cup {p \in others \X others : p[1] # p[2]}

\* the records of router r
LsaRecords(r) ==
  [routerId : {r}, neighbors : NeighborLists(r),
   prefixes : {<<>>, <<PrefixOf(r)>>}, sequenceNumber : {1}]

\* the databases: at most one record per router, in any order of insertion
Lsdbs ==
  LET entries == UNION {[key : {r}, val : LsaRecords(r)] : r \in RouterIds}
  IN {db \in UNION {[1..n -> entries] : n \in 0..Cardinality(RouterIds)} :
        \A j \in 1..Len(db), k \in 1..Len(db) : j # k => db[j].key # db[k].key}

\* the test 'should recompute SPF and update routing table': init, then a
\* database assigned to the lsdb field
InitSpf ==
  /\ TopologyIdle
  /\ rib = <<>>
  /\ staticRoutes = <<>>
  /\ ripTable = <<>>
  /\ now = 0
  /\ sent = <<>>
  /\ arg = <<>>
  /\ bgp = NewBgp
  /\ timers = {}
  /\ \E proto \in LinkStateProtocols, db \in Lsdbs :
       ls = [NewLinkState(proto) EXCEPT !.lsdb = db]
  /\ last = "init"

\* (engine as any).recomputeRoutes()
callRecomputeRoutes ==
  /\ ls' = [ls EXCEPT
              !.routingTable = recomputeRoutes(ls.lsdb, LocalName, ls.protocol)]
  /\ last' = "recomputeRoutes"
  /\ UNCHANGED <<topologyVars, rib, staticRoutes, ripTable, now, sent, arg,
                 bgp, timers>>

NextSpf == callRecomputeRoutes

SpecSpf == InitSpf /\ [][NextSpf]_vars

\* ---- the reference shortest paths of the properties -----------------------

\* the elements of a list
Range(seq) == {seq[k] : k \in 1..Len(seq)}

\* r and s are joined in the undirected graph of the database: one of them
\* lists the other as a neighbor
Linked(db, r, s) ==
  \/ r \in KeysOf(db) /\ s \in Range(NeighborsOf(Get(db, r)))
  \/ s \in KeysOf(db) /\ r \in Range(NeighborsOf(Get(db, s)))

\* the routers within n hops of src
RECURSIVE Within(_, _, _)
Within(db, src, n) ==
  IF n = 0
    THEN {src}
    ELSE LET w == Within(db, src, n - 1) IN
           w \cup {s \in RouterIds : \E r \in w : Linked(db, r, s)}

Reachable(db, src) == Within(db, src, Cardinality(RouterIds))

\* the number of hops of a shortest path from src to a reachable dst
Hops(db, src, dst) ==
  CHOOSE n \in 0..Cardinality(RouterIds) :
    /\ dst \in Within(db, src, n)
    /\ n = 0 \/ dst \notin Within(db, src, n - 1)

\* the positions of the table that hold prefix p
EntriesTo(table, p) == {k \in 1..Len(table) : table[k].destination = p}

\* C19: after recomputeRoutes the table agrees with the shortest paths of the
\* undirected graph of the database at cost 10 a hop: for every reachable
\* router other than the local one, exactly one entry per prefix, its metric
\* 10 times the hops, its next hop a neighbor of the local router on a
\* shortest path; and no entry for a prefix of the local router.
C19_SpfMatchesReference ==
  last = "recomputeRoutes" =>
    LET db == ls.lsdb
        t == ls.routingTable
    IN /\ \A r \in (KeysOf(db) \cap Reachable(db, LocalName)) \ {LocalName} :
            \A p \in Range(PrefixesOf(Get(db, r))) :
              /\ Cardinality(EntriesTo(t, p)) = 1
              /\ \A k \in EntriesTo(t, p) :
                   /\ t[k].metric = 10 * Hops(db, LocalName, r)
                   /\ Linked(db, LocalName, t[k].nextHop)
                   /\ Hops(db, t[k].nextHop, r) = Hops(db, LocalName, r) - 1
       /\ LocalName \in KeysOf(db) =>
            \A p \in Range(PrefixesOf(Get(db, LocalName))) :
              EntriesTo(t, p) = {}

\* C20: after recomputeRoutes a router of the database that the local router
\* cannot reach contributes no entry, whatever prefixes its record lists.
C20_UnreachableContributesNothing ==
  last = "recomputeRoutes" =>
    \A r \in KeysOf(ls.lsdb) \ Reachable(ls.lsdb, LocalName) :
      \A p \in Range(PrefixesOf(Get(ls.lsdb, r))) :
        EntriesTo(ls.routingTable, p) = {}

\* ---- OspfRoutingEngine / IsisRoutingEngine: the handlers ------------------

\* the largest value Date.now() returns
MaxClock == 2

HelloType(proto) == IF proto = "ospf" THEN "ospf-hello" ELSE "isis-hello"

\* 'ospf-lsa' / 'isis-lsp'
RecordType(proto) == IF proto = "ospf" THEN "ospf-lsa" ELSE "isis-lsp"

\* the interfaces whose entry of neighbors / adjacencies is true, in the order
\* of the map
UpInterfaces(neighbors) ==
  LET up == SelectSeq(neighbors, LAMBDA e : e.val) IN
    [k \in 1..Len(up) |-> up[k].key]

\* the sendPacket calls of a loop that sends payload on every up interface
Flood(neighbors, proto, payload) ==
  LET up == UpInterfaces(neighbors) IN
    [k \in 1..Len(up) |->
       [interfaceId |-> up[k],
        packet |-> [type |-> RecordType(proto), payload |-> payload]]]

\* lsaPayload of floodLsa (with the interface ids of the up neighbors) and
\* lspPayload of floodLsp (without neighbors); routerId stands for systemId
\* too; getLocalPrefixes() returns []
LocalRecord(proto, neighbors, t) ==
  IF proto = "ospf"
    THEN [routerId |-> LocalName, prefixes |-> <<>>,
          neighbors |-> UpInterfaces(neighbors), sequenceNumber |-> t]
    ELSE [routerId |-> LocalName, prefixes |-> <<>>, sequenceNumber |-> t]

\* sendHello(interfaceId): the one sendPacket call
sendHello(interfaceId) ==
  <<[interfaceId |-> interfaceId,
     packet |-> [type |-> HelloType(ls.protocol),
                 payload |-> [routerId |-> LocalName,
                              interfaceId |-> interfaceId]]]>>

\* processHello: the ingress interface becomes a neighbor, then floodLsa /
\* floodLsp stores the local record under Date.now() and sends it
processHello(ingress) ==
  \E t \in now..MaxClock :
    LET neighbors == Set(ls.neighbors, ingress, TRUE)
        payload == LocalRecord(ls.protocol, neighbors, t)
    IN /\ ls' = [ls EXCEPT !.neighbors = neighbors,
                           !.lsdb = Set(ls.lsdb, LocalName, payload)]
       /\ sent' = Flood(neighbors, ls.protocol, payload)
       /\ now' = t

\* processLsa with >= in place of >: a record of equal sequence number is
\* accepted
processLsa_AcceptsEqual(payload) ==
  IF \/ payload.routerId \notin KeysOf(ls.lsdb)
     \/ payload.sequenceNumber
          >= Get(ls.lsdb, payload.routerId).sequenceNumber
    THEN LET lsdb == Set(ls.lsdb, payload.routerId, payload) IN
           /\ ls' = [ls EXCEPT
                       !.lsdb = lsdb,
                       !.routingTable =
                          recomputeRoutes(lsdb, LocalName, ls.protocol)]
           /\ sent' = Flood(ls.neighbors, ls.protocol, payload)
           /\ now' = now
    ELSE /\ sent' = <<>>
         /\ UNCHANGED <<ls, now>>

\* processLsa / processLsp
processLsa(payload) ==
  IF \/ payload.routerId \notin KeysOf(ls.lsdb)
     \/ payload.sequenceNumber
          > Get(ls.lsdb, payload.routerId).sequenceNumber
    THEN LET lsdb == Set(ls.lsdb, payload.routerId, payload) IN
           /\ ls' = [ls EXCEPT
                       !.lsdb = lsdb,
                       !.routingTable =
                          recomputeRoutes(lsdb, LocalName, ls.protocol)]
           /\ sent' = Flood(ls.neighbors, ls.protocol, payload)
           /\ now' = now
    ELSE /\ sent' = <<>>
         /\ UNCHANGED <<ls, now>>

\* the records that arrive in packets: those of R2, and a record of the local
\* router that lists R2
InputRecords ==
  [routerId : {"R2"}, neighbors : {<<>>, <<"R1">>},
   prefixes : {<<>>, <<PrefixOf("R2")>>}, sequenceNumber : 1..MaxClock]
    \cup [routerId : {LocalName}, neighbors : {<<"R2">>}, prefixes : {<<>>},
          sequenceNumber : 1..MaxClock]

\* the packets handed to handlePacket of an engine of protocol proto: the
\* Hellos of both protocols and the records of its own
LinkStatePackets(proto) ==
  [type : {HelloType(p) : p \in LinkStateProtocols},
   payload : {[routerId |-> "R2"]}]
    \cup [type : {RecordType(proto)}, payload : InputRecords]

\* handlePacket that takes every packet that is not a record for a Hello
LinkState_handle_HelloByDefault(packet, ingress) ==
  /\ IF packet.type = RecordType(ls.protocol)
       THEN processLsa(packet.payload)
       ELSE processHello(ingress)
  /\ last' = "handlePacket"
  /\ arg' = [packet |-> packet, ingress |-> ingress]
  /\ UNCHANGED <<topologyVars, rib, staticRoutes, ripTable, bgp, timers>>

\* handlePacket(packet, ingressInterface)
LinkState_handle(packet, ingress) ==
  /\ IF packet.type = HelloType(ls.protocol)
       THEN processHello(ingress)
       ELSE IF packet.type = RecordType(ls.protocol)
              THEN processLsa(packet.payload)
              ELSE /\ sent' = <<>>
                   /\ UNCHANGED <<ls, now>>
  /\ last' = "handlePacket"
  /\ arg' = [packet |-> packet, ingress |-> ingress]
  /\ UNCHANGED <<topologyVars, rib, staticRoutes, ripTable, bgp, timers>>

\* handlePacket called with any of the packets, on any interface
LinkState_handlePacket ==
  \E packet \in LinkStatePackets(ls.protocol), ingress \in IfNames :
    LinkState_handle(packet, ingress)

\* handleInterfaceChange(event)
LinkState_handleInterfaceChange ==
  \E event \in [interfaceId : IfNames, status : Statuses] :
    /\ ls' = [ls EXCEPT !.neighbors = Set(ls.neighbors, event.interfaceId, FALSE)]
    /\ sent' = IF event.status = "up" THEN sendHello(event.interfaceId) ELSE <<>>
    /\ last' = "handleInterfaceChange"
    /\ arg' = event
    /\ UNCHANGED <<topologyVars, rib, staticRoutes, ripTable, now, bgp, timers>>

\* init(device, topology)
LinkState_init ==
  /\ ls' = NewLinkState(ls.protocol)
  /\ sent' = <<>>
  /\ last' = "init"
  /\ arg' = <<>>
  /\ UNCHANGED <<topologyVars, rib, staticRoutes, ripTable, now, bgp, timers>>

\* shutdown()
LinkState_shutdown ==
  /\ ls' = NewLinkState(ls.protocol)
  /\ sent' = <<>>
  /\ last' = "shutdown"
  /\ arg' = <<>>
  /\ UNCHANGED <<topologyVars, rib, staticRoutes, ripTable, now, bgp, timers>>

\* one OSPF or IS-IS engine on device LocalName, after init
InitLinkState ==
  /\ TopologyIdle
  /\ rib = <<>>
  /\ staticRoutes = <<>>
  /\ ripTable = <<>>
  /\ \E proto \in LinkStateProtocols : ls = NewLinkState(proto)
  /\ now = 1
  /\ sent = <<>>
  /\ arg = <<>>
  /\ bgp = NewBgp
  /\ timers = {}
  /\ last = "init"

NextLinkState ==
  \/ LinkState_handlePacket
  \/ LinkState_handleInterfaceChange
  \/ LinkState_init
  \/ LinkState_shutdown

SpecLinkState == InitLinkState /\ [][NextLinkState]_vars

\* ---- properties of the link-state handlers --------------------------------

\* the state follows a handlePacket call with a record of the engine's
\* protocol
RecordHandled ==
  last = "handlePacket" /\ arg.packet.type = RecordType(ls.protocol)

\* C17: a link-state engine accepts an incoming record, overwriting the LSDB
\* entry of its originator, only if no entry is stored for that originator or
\* the incoming sequence number is strictly greater than the stored one; a
\* record of equal or lower sequence number leaves the LSDB and the routing
\* table unchanged and is not reflooded.
C17_AcceptOnlyNewer ==
  [][RecordHandled' =>
       LET p == arg'.packet.payload IN
         IF \/ p.routerId \notin KeysOf(ls.lsdb)
            \/ p.sequenceNumber > Get(ls.lsdb, p.routerId).sequenceNumber
           THEN Get(ls'.lsdb, p.routerId) = p
           ELSE /\ ls'.lsdb = ls.lsdb
                /\ ls'.routingTable = ls.routingTable
                /\ sent' = <<>>]_vars

\* a record of the stored sequence number, differing from the stored record,
\* has been handled by an engine with an up neighbor: nothing was sent
C17_Witness ==
  /\ RecordHandled
  /\ UpInterfaces(ls.neighbors) # <<>>
  /\ LET p == arg.packet.payload IN
       /\ p.routerId \in KeysOf(ls.lsdb)
       /\ Get(ls.lsdb, p.routerId).sequenceNumber = p.sequenceNumber
       /\ Get(ls.lsdb, p.routerId) # p
  /\ sent = <<>>

\* the state follows handleInterfaceChange with a down event
DownHandled ==
  last = "handleInterfaceChange" /\ arg.status = "down"

\* interface i is Adjacent: its entry of neighbors / adjacencies is true
Adjacent(neighbors, i) == i \in KeysOf(neighbors) /\ Get(neighbors, i)

\* C18: on a down InterfaceEvent for an interface whose neighbor is Adjacent,
\* the engine marks the neighbor down, re-originates its local record without
\* that adjacency, refloods it on the remaining Adjacent interfaces, and
\* after the SPF rerun holds no route to a router it cannot reach.
C18_DownEventWithdraws ==
  [][(DownHandled' /\ Adjacent(ls.neighbors, arg'.interfaceId)) =>
       /\ ~Adjacent(ls'.neighbors, arg'.interfaceId)
       /\ LocalName \in KeysOf(ls'.lsdb)
       /\ arg'.interfaceId
            \notin Range(NeighborsOf(Get(ls'.lsdb, LocalName)))
       /\ sent' = Flood(ls'.neighbors, ls.protocol, Get(ls'.lsdb, LocalName))
       /\ \A r \in KeysOf(ls'.lsdb) \ Reachable(ls'.lsdb, LocalName) :
            \A p \in Range(PrefixesOf(Get(ls'.lsdb, r))) :
              EntriesTo(ls'.routingTable, p) = {}]_vars

\* ---- a device with a Static, a RIP and an OSPF engine ---------------------

\* the longest list of static routes
MaxStaticRoutes == 2

\* the RoutingEntry values a caller passes to addStaticRoute
StaticRouteInputs ==
  [destination : {PrefixOf("R2"), PrefixOf("R3")}, nextHop : {"R2"},
   metric : {0}, protocol : {"static", "rip"},
   administrativeDistance : {1, 200}]

\* addStaticRoute(route)
addStaticRoute ==
  \E route \in StaticRouteInputs :
    /\ Len(staticRoutes) < MaxStaticRoutes
    /\ staticRoutes' = Append(staticRoutes, route)
    /\ last' = "addStaticRoute"
    /\ arg' = route
    /\ UNCHANGED <<topologyVars, rib, ripTable, ls, now, sent, bgp, timers>>

\* removeStaticRoute(destination)
removeStaticRoute ==
  \E destination \in {PrefixOf("R2"), PrefixOf("R3")} :
    /\ staticRoutes' =
         SelectSeq(staticRoutes, LAMBDA r : r.destination # destination)
    /\ last' = "removeStaticRoute"
    /\ arg' = destination
    /\ UNCHANGED <<topologyVars, rib, ripTable, ls, now, sent, bgp, timers>>

\* StaticRoutingEngine.init: binds device and topology, nothing else
Static_init ==
  /\ last' = "static.init"
  /\ arg' = <<>>
  /\ UNCHANGED <<topologyVars, rib, staticRoutes, ripTable, ls, now, sent,
                 bgp, timers>>

\* StaticRoutingEngine.shutdown
Static_shutdown ==
  /\ staticRoutes' = <<>>
  /\ last' = "static.shutdown"
  /\ arg' = <<>>
  /\ UNCHANGED <<topologyVars, rib, ripTable, ls, now, sent, bgp, timers>>

\* RipRoutingEngine.init: binds device and topology, nothing else
Rip_init ==
  /\ last' = "rip.init"
  /\ arg' = <<>>
  /\ UNCHANGED <<topologyVars, rib, staticRoutes, ripTable, ls, now, sent,
                 bgp, timers>>

\* RipRoutingEngine.shutdown
Rip_shutdown ==
  /\ ripTable' = <<>>
  /\ last' = "rip.shutdown"
  /\ arg' = <<>>
  /\ UNCHANGED <<topologyVars, rib, staticRoutes, ls, now, sent, bgp, timers>>

\* the records the OSPF engine of the device receives
RibRecords ==
  {[routerId |-> LocalName, neighbors |-> <<"R2">>, prefixes |-> <<>>,
    sequenceNumber |-> 1],
   [routerId |-> "R2", neighbors |-> <<LocalName>>,
    prefixes |-> <<PrefixOf("R2")>>, sequenceNumber |-> 1]}

\* OspfRoutingEngine.handlePacket with an 'ospf-lsa' packet
Ospf_handleRecord ==
  \E payload \in RibRecords :
    /\ processLsa(payload)
    /\ last' = "handlePacket"
    /\ arg' = [packet |-> [type |-> RecordType("ospf"), payload |-> payload],
               ingress |-> "eth0"]
    /\ UNCHANGED <<topologyVars, rib, staticRoutes, ripTable, bgp, timers>>

\* the getRoutingTable() outputs of the engines, in the order of
\* routingEngines: allRoutes of updateRoutingTable
AllRoutes == staticRoutes \o ripTable \o ls.routingTable

\* Device.updateRoutingTable()
updateRoutingTable ==
  /\ rib' = AllRoutes
  /\ last' = "updateRoutingTable"
  /\ arg' = <<>>
  /\ UNCHANGED <<topologyVars, staticRoutes, ripTable, ls, now, sent, bgp,
                 timers>>

\* the device after addRoutingEngine of a Static, a RIP and an OSPF engine
InitRib ==
  /\ TopologyIdle
  /\ EnginesIdle
  /\ last = "addRoutingEngine"

NextRib ==
  \/ addStaticRoute
  \/ removeStaticRoute
  \/ Static_init
  \/ Static_shutdown
  \/ Rip_init
  \/ Rip_shutdown
  \/ Ospf_handleRecord
  \/ LinkState_init
  \/ LinkState_shutdown
  \/ updateRoutingTable

SpecRib == InitRib /\ [][NextRib]_vars

\* ---- properties of the device's routing table and of the engines' tables --

\* the aggregation of a list of routes: per destination, the entries that no
\* entry of the same destination beats on administrative distance
Preferred(routes) ==
  {e \in Range(routes) :
     \A f \in Range(routes) :
       f.destination = e.destination
         => e.administrativeDistance <= f.administrativeDistance}

\* C11: after every event that changes the routing table of an attached
\* engine, the device's routingTable equals the aggregation of the current
\* getRoutingTable() outputs of its engines.
C11_RibFollowsEngines ==
  [][AllRoutes' # AllRoutes => Range(rib') = Preferred(AllRoutes')]_vars

\* C12: when the Static and the OSPF engine offer a route to the same
\* destination, the table updateRoutingTable produces holds for that
\* destination only the entry of the lower administrative distance.
C12_LowestDistanceWins ==
  last = "updateRoutingTable" =>
    \A s \in Range(staticRoutes), o \in Range(ls.routingTable) :
      s.destination = o.destination =>
        /\ s.administrativeDistance < o.administrativeDistance
             => o \notin Range(rib)
        /\ o.administrativeDistance < s.administrativeDistance
             => s \notin Range(rib)

\* C13: every entry of every engine's getRoutingTable() carries the
\* administrative distance fixed for the engine's protocol (static 1, bgp 20,
\* ospf 110, isis 115, rip 120) and the engine's protocol tag.
C13_FixedDistancePerProtocol ==
  /\ \A e \in Range(staticRoutes) :
       e.protocol = "static" /\ e.administrativeDistance = 1
  /\ \A e \in Range(ripTable) :
       e.protocol = "rip" /\ e.administrativeDistance = 120
  /\ \A e \in Range(bgp.routingTable) :
       e.protocol = "bgp" /\ e.administrativeDistance = 20
  /\ \A e \in Range(ls.routingTable) :
       /\ e.protocol = ls.protocol
       /\ e.administrativeDistance = IF ls.protocol = "ospf" THEN 110 ELSE 115

\* C14: immediately after init an engine is empty: the Static engine holds
\* no configured route, the RIP engine no route, the link-state engine no
\* neighbor, record or route.
C14_InitResets ==
  /\ last = "static.init" => staticRoutes = <<>>
  /\ last = "rip.init" => ripTable = <<>>
  /\ last = "init" => ls = NewLinkState(ls.protocol)

\* ---- BgpRoutingEngine -----------------------------------------------------

\* the most timers pending at once
MaxTimers == 4

BgpPeers == {"R2", "R3"}

\* a.f || d: the field when present and not 0, else d
OrElse(a, f, d) == IF f \in DOMAIN a /\ a[f] # 0 THEN a[f] ELSE d

\* a.f !== b.f
FieldsDiffer(a, b, f) ==
  \/ (f \in DOMAIN a) # (f \in DOMAIN b)
  \/ f \in DOMAIN a /\ f \in DOMAIN b /\ a[f] # b[f]

\* a.asPath?.length || 0
AsPathLength(a) == IF "asPath" \in DOMAIN a THEN Len(a.asPath) ELSE 0

\* compareRoutes(a, b): a is better than b
compareRoutes(a, b) ==
  IF FieldsDiffer(a, b, "localPref")
    THEN OrElse(a, "localPref", 100) > OrElse(b, "localPref", 100)
    ELSE IF AsPathLength(a) # AsPathLength(b)
           THEN AsPathLength(a) < AsPathLength(b)
           ELSE IF OrElse(a, "med", 0) # OrElse(b, "med", 0)
                  THEN OrElse(a, "med", 0) < OrElse(b, "med", 0)
                  ELSE FALSE

\* the loop over the routes of one peer, from position k
RECURSIVE BestOfPeer(_, _, _, _)
BestOfPeer(bestRoutes, peerId, routes, k) ==
  IF k > Len(routes)
    THEN bestRoutes
    ELSE LET route == routes[k]
             better ==
               \/ route.prefix \notin KeysOf(bestRoutes)
               \/ compareRoutes(route, Get(bestRoutes, route.prefix).route)
         IN BestOfPeer(IF better
                         THEN Set(bestRoutes, route.prefix,
                                  [route |-> route, peerId |-> peerId])
                         ELSE bestRoutes,
                       peerId, routes, k + 1)

\* the loop over adjRibIn.entries(), from position k
RECURSIVE BestRoutes(_, _, _)
BestRoutes(bestRoutes, adjRibIn, k) ==
  IF k > Len(adjRibIn)
    THEN bestRoutes
    ELSE BestRoutes(BestOfPeer(bestRoutes, adjRibIn[k].key, adjRibIn[k].val, 1),
                    adjRibIn, k + 1)

\* BgpRoutingEngine.recomputeRoutes(): the new routingTable
Bgp_recomputeRoutes(adjRibIn) ==
  LET bestRoutes == BestRoutes(<<>>, adjRibIn, 1) IN
    [k \in 1..Len(bestRoutes) |->
       [destination |-> bestRoutes[k].key,
        nextHop |-> bestRoutes[k].val.route.nextHop,
        metric |-> OrElse(bestRoutes[k].val.route, "metric", 0),
        protocol |-> "bgp",
        administrativeDistance |-> 20]]

\* the handles setTimeout / setInterval can return: those no pending timer
\* has, the handle just cleared or handed out excepted
FreshHandles(pending, taken) ==
  (1..MaxTimers) \ ({t.id : t \in pending} \cup taken)

\* the handle returned: a new object, here the least free number
FreshHandle(pending, taken) ==
  CHOOSE h \in FreshHandles(pending, taken) :
    \A g \in FreshHandles(pending, taken) : h <= g

\* the keepalive packet sent on an interface
Keepalive(interfaceId) ==
  [interfaceId |-> interfaceId,
   packet |-> [type |-> "bgp-keepalive", payload |-> [peerId |-> LocalName]]]

\* processOpen: a new peer object, its hold and keepalive timers started, a
\* keepalive sent
processOpen(payload, ingress) ==
  LET h == FreshHandle(timers, {})
      k == FreshHandle(timers, {h})
  IN  /\ Cardinality(FreshHandles(timers, {})) >= 2
      /\ bgp' = [bgp EXCEPT
                   !.peers = Set(bgp.peers, payload.peerId,
                                 [state |-> "Established",
                                  timers |-> [holdTimer |-> h,
                                              keepaliveTimer |-> k]])]
      /\ timers' = timers \cup
           {[id |-> h, kind |-> "hold", peerId |-> payload.peerId,
             ingress |-> Undefined],
            [id |-> k, kind |-> "keepalive", peerId |-> payload.peerId,
             ingress |-> ingress]}
      /\ sent' = <<Keepalive(ingress)>>

\* processKeepalive: resetHoldTimer of a known peer clears its hold timer and
\* starts a new one
processKeepalive(payload) ==
  IF payload.peerId \in KeysOf(bgp.peers)
    THEN LET peer == Get(bgp.peers, payload.peerId)
             pending == {t \in timers : t.id # peer.timers.holdTimer}
             h == FreshHandle(pending, {peer.timers.holdTimer})
         IN   /\ FreshHandles(pending, {peer.timers.holdTimer}) # {}
              /\ bgp' = [bgp EXCEPT
                           !.peers = Set(bgp.peers, payload.peerId,
                                         [peer EXCEPT !.timers.holdTimer = h])]
              /\ timers' = pending \cup
                   {[id |-> h, kind |-> "hold", peerId |-> payload.peerId,
                     ingress |-> Undefined]}
              /\ sent' = <<>>
    ELSE /\ sent' = <<>>
         /\ UNCHANGED <<bgp, timers>>

\* payload.routes || []
RoutesOf(payload) ==
  IF "routes" \in DOMAIN payload THEN payload.routes ELSE <<>>

\* processUpdate with the routes appended to the peer's list
processUpdate_Appends(payload) ==
  LET old == IF payload.peerId \in KeysOf(bgp.adjRibIn)
               THEN Get(bgp.adjRibIn, payload.peerId)
               ELSE <<>>
      adjRibIn == Set(bgp.adjRibIn, payload.peerId, old \o RoutesOf(payload))
  IN
    /\ bgp' = [bgp EXCEPT !.adjRibIn = adjRibIn,
                          !.routingTable = Bgp_recomputeRoutes(adjRibIn)]
    /\ sent' = <<>>
    /\ UNCHANGED timers

\* processUpdate
processUpdate(payload) ==
  LET adjRibIn == Set(bgp.adjRibIn, payload.peerId, RoutesOf(payload)) IN
    /\ bgp' = [bgp EXCEPT !.adjRibIn = adjRibIn,
                          !.routingTable = Bgp_recomputeRoutes(adjRibIn)]
    /\ sent' = <<>>
    /\ UNCHANGED timers

\* the routes of an Update
UpdateRoutes(peerId) ==
  {<<>>,
   <<[prefix |-> PrefixOf("R3"), nextHop |-> peerId]>>,
   <<[prefix |-> PrefixOf("R3"), nextHop |-> peerId, localPref |-> 200]>>}

\* the packets handed to handlePacket
BgpPackets ==
  UNION {[type : {"bgp-open", "bgp-keepalive"}, payload : {[peerId |-> p]}]
           \cup [type : {"bgp-update"},
                 payload : [peerId : {p}, routes : UpdateRoutes(p)]]
         : p \in BgpPeers}
    \cup {[type |-> "ospf-hello", payload |-> [routerId |-> "R2"]]}

\* handlePacket(packet, ingressInterface)
Bgp_handle(packet, ingress) ==
  /\ CASE packet.type = "bgp-open" ->
            processOpen(packet.payload, ingress)
       [] packet.type = "bgp-keepalive" ->
            processKeepalive(packet.payload)
       [] packet.type = "bgp-update" ->
            processUpdate(packet.payload)
       [] OTHER ->
            sent' = <<>> /\ UNCHANGED <<bgp, timers>>
  /\ last' = "bgp.handlePacket"
  /\ arg' = [packet |-> packet, ingress |-> ingress]
  /\ UNCHANGED <<topologyVars, rib, staticRoutes, ripTable, ls, now>>

\* handlePacket called with any of the packets, on any interface
Bgp_handlePacket ==
  \E packet \in BgpPackets, ingress \in IfNames :
    Bgp_handle(packet, ingress)

\* init(device, topology): the maps and the table are emptied, the timers
\* are not touched
Bgp_init ==
  /\ bgp' = NewBgp
  /\ sent' = <<>>
  /\ last' = "bgp.init"
  /\ arg' = <<>>
  /\ UNCHANGED <<topologyVars, rib, staticRoutes, ripTable, ls, now, timers>>

\* shutdown(): the same
Bgp_shutdown ==
  /\ bgp' = NewBgp
  /\ sent' = <<>>
  /\ last' = "bgp.shutdown"
  /\ arg' = <<>>
  /\ UNCHANGED <<topologyVars, rib, staticRoutes, ripTable, ls, now, timers>>

\* the callback of a pending hold timer runs
Bgp_holdTimerFires ==
  \E t \in timers :
    /\ t.kind = "hold"
    /\ timers' = timers \ {t}
    /\ bgp' = [bgp EXCEPT !.peers = Delete(bgp.peers, t.peerId),
                          !.routingTable = Bgp_recomputeRoutes(bgp.adjRibIn)]
    /\ sent' = <<>>
    /\ last' = "holdTimer"
    /\ arg' = t
    /\ UNCHANGED <<topologyVars, rib, staticRoutes, ripTable, ls, now>>

\* the callback of a pending keepalive interval runs
Bgp_keepaliveTimerFires ==
  \E t \in timers :
    /\ t.kind = "keepalive"
    /\ sent' = <<Keepalive(t.ingress)>>
    /\ last' = "keepaliveTimer"
    /\ arg' = t
    /\ UNCHANGED <<topologyVars, rib, staticRoutes, ripTable, ls, now, bgp,
                   timers>>

\* one BGP engine on device LocalName, after init
InitBgp ==
  /\ TopologyIdle
  /\ EnginesIdle
  /\ last = "bgp.init"

NextBgp ==
  \/ Bgp_handlePacket
  \/ Bgp_init
  \/ Bgp_shutdown
  \/ Bgp_holdTimerFires
  \/ Bgp_keepaliveTimerFires

SpecBgp == InitBgp /\ [][NextBgp]_vars

\* ---- properties of the BGP engine's timers --------------------------------

\* C15: init on an initialised BGP engine leaves it as a single init does,
\* the pending timers included: the engine is empty and no timer registered
\* before the init is still pending after it.
C15_InitCancelsTimers ==
  [][last' = "bgp.init" => bgp' = NewBgp /\ timers' \cap timers = {}]_vars

\* C16: after shutdown() the engine neither sends a packet nor changes its
\* routing table: the step that follows a shutdown is not the firing of a
\* hold or keepalive timer started before it.
C16_QuietAfterShutdown ==
  [][last = "bgp.shutdown" => last' \notin {"holdTimer", "keepaliveTimer"}]_vars

\* ---- properties of the BGP sessions ---------------------------------------

\* the state follows a handlePacket call of the BGP engine with a packet of
\* the given type
BgpHandled(type) ==
  last = "bgp.handlePacket" /\ arg.packet.type = type

\* the pending hold timer the peer object of peerId holds the handle of
CurrentHoldTimers(peers, pending, peerId) ==
  IF peerId \in KeysOf(peers)
    THEN {t \in pending : /\ t.kind = "hold"
                          /\ t.id = Get(peers, peerId).timers.holdTimer}
    ELSE {}

\* C22: processing an Open moves the peer to OpenConfirm, not to
\* Established, and starts no timer: the hold and keepalive timers are
\* started only when a Keepalive makes the session Established.
C22_OpenLeadsToOpenConfirm ==
  [][BgpHandled("bgp-open")' =>
       /\ Get(bgp'.peers, arg'.packet.payload.peerId).state = "OpenConfirm"
       /\ timers' = timers]_vars

\* C23: when the hold timer a peer holds fires, the peer's session is gone,
\* its Adj-RIB-In entries are discarded and the table is the best-path
\* selection over what remains, so no route learned from that peer is left.
C23_HoldExpiryDiscardsRoutes ==
  [][(last' = "holdTimer"
        /\ arg' \in CurrentHoldTimers(bgp.peers, timers, arg'.peerId)) =>
       /\ arg'.peerId \notin KeysOf(bgp'.peers)
       /\ arg'.peerId \in KeysOf(bgp'.adjRibIn)
            => Get(bgp'.adjRibIn, arg'.peerId) = <<>>
       /\ bgp'.routingTable = Bgp_recomputeRoutes(bgp'.adjRibIn)
       /\ \A e \in Range(bgp'.routingTable) : e.nextHop # arg'.peerId]_vars

\* C24: an Open, Keepalive or Update from a peer whose hold timer is running
\* restarts that timer: the running timer is cancelled and the peer holds a
\* new pending one.
C24_AnyMessageRestartsHold ==
  [][(\/ BgpHandled("bgp-open")'
      \/ BgpHandled("bgp-keepalive")'
      \/ BgpHandled("bgp-update")') =>
       LET peerId == arg'.packet.payload.peerId IN
         CurrentHoldTimers(bgp.peers, timers, peerId) # {} =>
           /\ CurrentHoldTimers(bgp.peers, timers, peerId) \cap timers' = {}
           /\ CurrentHoldTimers(bgp'.peers, timers', peerId) # {}]_vars

\* ---- BgpRoutingEngine: Updates and best-path selection --------------------

\* the routes of the Updates of peerId: to one prefix, with or without a
\* local preference, an AS path and a MED
BestPathRoutes(peerId) ==
  LET base == [prefix |-> PrefixOf("R3"), nextHop |-> peerId]
      withLocalPref(r) == {r} \cup {r @@ [localPref |-> v] : v \in {100, 200}}
      withAsPath(r) == {r, r @@ [asPath |-> <<65001>>]}
      withMed(r) == {r, r @@ [med |-> 5]}
  IN UNION {UNION {withMed(q) : q \in withAsPath(r)} : r \in withLocalPref(base)}

\* the payloads of the Updates: one route, no route, or no routes field
UpdatePayloads ==
  UNION {{[peerId |-> p]}
           \cup [peerId : {p},
                 routes : {<<>>} \cup {<<r>> : r \in BestPathRoutes(p)}]
         : p \in BgpPeers}

\* BgpRoutingEngine.handlePacket with a 'bgp-update' packet
Bgp_handleUpdate ==
  \E payload \in UpdatePayloads, ingress \in {"eth0"} :
    /\ processUpdate(payload)
    /\ last' = "bgp.handlePacket"
    /\ arg' = [packet |-> [type |-> "bgp-update", payload |-> payload],
               ingress |-> ingress]
    /\ UNCHANGED <<topologyVars, rib, staticRoutes, ripTable, ls, now>>

\* one BGP engine that receives Updates only: no timer is ever started
NextBestPath ==
  \/ Bgp_handleUpdate
  \/ Bgp_init
  \/ Bgp_shutdown

SpecBestPath == InitBgp /\ [][NextBestPath]_vars

\* ---- properties of the Updates and of best-path selection -----------------

\* C25: an Update from peer P replaces P's Adj-RIB-In list with the routes
\* of the Update (none when it carries none), leaves the list of every
\* other peer as it was, and the table is the best-path selection over the
\* new Adj-RIB-In.
C25_UpdateReplacesWholesale ==
  [][BgpHandled("bgp-update")' =>
       LET p == arg'.packet.payload IN
         /\ p.peerId \in KeysOf(bgp'.adjRibIn)
         /\ Get(bgp'.adjRibIn, p.peerId)
              = IF "routes" \in DOMAIN p THEN p.routes ELSE <<>>
         /\ \A q \in BgpPeers \ {p.peerId} :
              /\ q \in KeysOf(bgp'.adjRibIn) <=> q \in KeysOf(bgp.adjRibIn)
              /\ q \in KeysOf(bgp.adjRibIn)
                   => Get(bgp'.adjRibIn, q) = Get(bgp.adjRibIn, q)
         /\ bgp'.routingTable = Bgp_recomputeRoutes(bgp'.adjRibIn)]_vars

\* an Update without routes has emptied the list of its peer while the
\* other peer's route is in place and selected
C25_Witness ==
  /\ BgpHandled("bgp-update")
  /\ "routes" \notin DOMAIN arg.packet.payload
  /\ Get(bgp.adjRibIn, arg.packet.payload.peerId) = <<>>
  /\ \E q \in KeysOf(bgp.adjRibIn) \ {arg.packet.payload.peerId} :
       /\ Get(bgp.adjRibIn, q) # <<>>
       /\ \E e \in Range(bgp.routingTable) : e.nextHop = q

\* the order of the best-path rule: local preference (100 when absent), then
\* AS-path length, then MED (0 when absent)
LocalPrefOf(r) == IF "localPref" \in DOMAIN r THEN r.localPref ELSE 100
MedOf(r) == IF "med" \in DOMAIN r THEN r.med ELSE 0

Beats(d, c) ==
  \/ LocalPrefOf(d) > LocalPrefOf(c)
  \/ /\ LocalPrefOf(d) = LocalPrefOf(c)
     /\ AsPathLength(d) < AsPathLength(c)
  \/ /\ LocalPrefOf(d) = LocalPrefOf(c)
     /\ AsPathLength(d) = AsPathLength(c)
     /\ MedOf(d) < MedOf(c)

\* the routes to a prefix in an Adj-RIB-In
Candidates(adjRibIn, prefix) ==
  {r \in UNION {Range(adjRibIn[k].val) : k \in 1..Len(adjRibIn)} :
     r.prefix = prefix}

\* the candidate an entry of the table was built from: the peers advertise
\* themselves as next hop
SelectedFor(adjRibIn, e) ==
  {c \in Candidates(adjRibIn, e.destination) : c.nextHop = e.nextHop}

\* C26: the route best-path selection puts in the table for a prefix is
\* maximal: no candidate for the prefix has a higher local preference, or
\* the same and a shorter AS path, or both the same and a lower MED.
C26_BestPathIsMaximal ==
  \A e \in Range(bgp.routingTable) :
    \A c \in SelectedFor(bgp.adjRibIn, e) :
      \A d \in Candidates(bgp.adjRibIn, e.destination) : ~Beats(d, c)

\* C27: when best-path selection is rerun and the route selected so far is
\* still a candidate, a newly selected route that ties with it on local
\* preference, AS-path length and MED does not replace it.
C27_TieKeepsSelected ==
  [][BgpHandled("bgp-update")' =>
       \A e \in Range(bgp.routingTable), f \in Range(bgp'.routingTable) :
         \A c \in SelectedFor(bgp.adjRibIn, e) :
           \A d \in SelectedFor(bgp'.adjRibIn, f) :
             (/\ e.destination = f.destination
              /\ c \in Candidates(bgp'.adjRibIn, e.destination)
              /\ ~Beats(c, d)
              /\ ~Beats(d, c))
               => f.nextHop = e.nextHop]_vars

\* ---- StaticRoutingEngine: the handlers ------------------------------------

\* handleInterfaceChange that withdraws the routes when an interface goes
\* down
Static_handleInterfaceChange_DropsRoutes ==
  \E event \in [interfaceId : IfNames, status : Statuses] :
    /\ staticRoutes' = IF event.status = "down" THEN <<>> ELSE staticRoutes
    /\ sent' = <<>>
    /\ last' = "static.handleInterfaceChange"
    /\ arg' = event
    /\ UNCHANGED <<topologyVars, rib, ripTable, ls, now, bgp, timers>>

\* StaticRoutingEngine.handleInterfaceChange(event): a console line
Static_handleInterfaceChange ==
  \E event \in [interfaceId : IfNames, status : Statuses] :
    /\ sent' = <<>>
    /\ last' = "static.handleInterfaceChange"
    /\ arg' = event
    /\ UNCHANGED <<topologyVars, rib, staticRoutes, ripTable, ls, now, bgp,
                   timers>>

\* StaticRoutingEngine.handlePacket(packet, ingressInterface): a console line
Static_handlePacket ==
  \E packet \in LinkStatePackets("ospf") \cup BgpPackets, ingress \in IfNames :
    /\ sent' = <<>>
    /\ last' = "static.handlePacket"
    /\ arg' = [packet |-> packet, ingress |-> ingress]
    /\ UNCHANGED <<topologyVars, rib, staticRoutes, ripTable, ls, now, bgp,
                   timers>>

\* one Static engine, after init
InitStatic ==
  /\ TopologyIdle
  /\ EnginesIdle
  /\ last = "static.init"

NextStatic ==
  \/ addStaticRoute
  \/ removeStaticRoute
  \/ Static_init
  \/ Static_shutdown
  \/ Static_handleInterfaceChange
  \/ Static_handlePacket

SpecStatic == InitStatic /\ [][NextStatic]_vars

\* C28: the Static engine's list changes only through addStaticRoute,
\* removeStaticRoute and shutdown; handleInterfaceChange and handlePacket
\* leave the list unchanged and send no packet.
C28_StaticIgnoresEvents ==
  /\ [][staticRoutes' # staticRoutes =>
          last' \in {"addStaticRoute", "removeStaticRoute",
                     "static.shutdown"}]_vars
  /\ [][last' \in {"static.handleInterfaceChange", "static.handlePacket"} =>
          staticRoutes' = staticRoutes /\ sent' = <<>>]_vars

\* a down event has been handled by an engine that holds routes
C28_Witness ==
  /\ last = "static.handleInterfaceChange"
  /\ arg.status = "down"
  /\ staticRoutes # <<>>
  /\ sent = <<>>

\* ---- removeDevice of a device that runs a BGP engine ----------------------

\* the device the BGP engine is attached to; its name is LocalName
BgpDevice == "Router1"

\* BgpRoutingEngine.handlePacket with a 'bgp-open' packet that reached the
\* device
Bgp_handleOpen ==
  \E peerId \in BgpPeers, ingress \in {"eth0"} :
    /\ BgpDevice \in Registered
    /\ processOpen([peerId |-> peerId], ingress)
    /\ last' = "bgp.handlePacket"
    /\ arg' = [packet |-> [type |-> "bgp-open",
                           payload |-> [peerId |-> peerId]],
               ingress |-> ingress]
    /\ UNCHANGED <<topologyVars, rib, staticRoutes, ripTable, ls, now>>

\* createInitialTopology, then addRoutingEngine(new BgpRoutingEngine()) on
\* BgpDevice
InitTeardown ==
  /\ EnginesIdle
  /\ devices = [d \in DeviceIds |->
                  [NewDevice(d) EXCEPT
                     !.interfaces =
                        <<[name |-> "eth0",
                           intf |-> IF d = "Router1" THEN 1 ELSE 2]>>,
                     !.routingEngines =
                        IF d = BgpDevice THEN <<1>> ELSE <<>>]]
  /\ intfObjs = <<[NewNetworkInterface("eth0") EXCEPT !.link = 1],
                  [NewNetworkInterface("eth0") EXCEPT !.link = 1]>>
  /\ linkObjs = <<NewLink(1, 2)>>
  /\ links = {1}
  /\ engineObjs = <<[NewEngine("bgp") EXCEPT !.inits = 1]>>
  /\ last = "addRoutingEngine"

NextTeardown ==
  \/ Bgp_handleOpen
  \/ Bgp_holdTimerFires
  \/ Bgp_keepaliveTimerFires
  \/ \E id \in DeviceIds : removeDevice(id)
  \/ \E l \in links : removeLink(l)

SpecTeardown == InitTeardown /\ [][NextTeardown]_vars

\* C30: once the device of the BGP engine has been removed, no timer of the
\* engine fires: the engine sends no packet and recomputes no routes.
C30_RemoveDeviceStopsEngines ==
  [][BgpDevice \notin Registered =>
       last' \notin {"holdTimer", "keepaliveTimer"}]_vars

\* ---- the line R1 - R2 - R3, a link-state engine on each device ------------

\* the interfaces of the devices of the line, as indices of intfObjs
LineInterfaces(d) ==
  CASE d = "R1" -> <<[name |-> "eth0", intf |-> 1]>>
    [] d = "R2" -> <<[name |-> "eth0", intf |-> 2], [name |-> "eth1", intf |-> 3]>>
    [] OTHER -> <<[name |-> "eth0", intf |-> 4]>>

\* the engine of a device of the line, as an index of engineObjs
LineEngine(d) == CASE d = "R1" -> 1 [] d = "R2" -> 2 [] OTHER -> 3

\* addDevice, addInterface and connectInterfaces for the line, and
\* addRoutingEngine of an engine of the same protocol on each device
InitLine ==
  /\ EnginesIdle
  /\ devices = [d \in RouterIds |->
                  [NewDevice(d) EXCEPT
                     !.interfaces = LineInterfaces(d),
                     !.routingEngines = <<LineEngine(d)>>]]
  /\ intfObjs = <<[NewNetworkInterface("eth0") EXCEPT !.link = 1],
                  [NewNetworkInterface("eth0") EXCEPT !.link = 1],
                  [NewNetworkInterface("eth1") EXCEPT !.link = 2],
                  [NewNetworkInterface("eth0") EXCEPT !.link = 2]>>
  /\ linkObjs = <<NewLink(1, 2), NewLink(3, 4)>>
  /\ links = {1, 2}
  /\ \E proto \in LinkStateProtocols :
       engineObjs = [k \in 1..3 |-> NewLinkState(proto)]
  /\ last = "addRoutingEngine"

\* handleInterfaceChange(event) of the engine of device d, for an interface
\* of d: the neighbor is marked down and, on an up event, a Hello is handed
\* to device.sendPacket, which delivers nothing
Line_handleInterfaceChange ==
  \E d \in RouterIds, status \in Statuses :
    \E k \in 1..Len(devices[d].interfaces) :
      LET interfaceId == devices[d].interfaces[k].name
          e == LineEngine(d)
      IN /\ engineObjs' = [engineObjs EXCEPT
                             ![e].neighbors = Set(@, interfaceId, FALSE)]
         /\ sent' = IF status = "up"
                      THEN <<[interfaceId |-> interfaceId,
                              packet |->
                                [type |-> HelloType(engineObjs[e].protocol),
                                 payload |-> [routerId |-> d,
                                              interfaceId |-> interfaceId]]]>>
                      ELSE <<>>
         /\ last' = "handleInterfaceChange"
         /\ arg' = [device |-> d, interfaceId |-> interfaceId,
                    status |-> status]
         /\ UNCHANGED <<devices, links, intfObjs, linkObjs, rib, staticRoutes,
                        ripTable, ls, now, bgp, timers>>

NextLine ==
  \/ \E l \in links, s \in Statuses : Link_setStatus(l, s)
  \/ \E d \in RouterIds, name \in IfNames, p \in Packets :
       sendPacket(d, name, p)
  \/ Line_handleInterfaceChange

\* every call that can be made is made in the end
SpecLine == InitLine /\ [][NextLine]_vars /\ WF_vars(NextLine)

\* both links and their four interfaces are up
LineUp ==
  /\ \A l \in links : linkObjs[l].status = "up"
  /\ \A i \in 1..Len(intfObjs) : intfObjs[i].status = "up"

\* C21: on the line R1 - R2 - R3 with the same link-state engine on each
\* device, once both links are up for good R1 comes to hold, and keeps, a
\* route to R3's prefix with next hop R2 and metric 20.
C21_LineConverges ==
  <>[]LineUp =>
    <>[](\E e \in Range(engineObjs[LineEngine("R1")].routingTable) :
           /\ e.destination = PrefixOf("R3")
           /\ e.nextHop = "R2"
           /\ e.metric = 20)

\* ---- two runs of one link-state engine, given the same calls --------------

\* processHello and floodLsa / floodLsp on the fields e of an engine, with t
\* the value Date.now() returns
AfterHello(e, ingress, t) ==
  LET neighbors == Set(e.neighbors, ingress, TRUE) IN
    [e EXCEPT !.neighbors = neighbors,
              !.lsdb = Set(e.lsdb, LocalName,
                           LocalRecord(e.protocol, neighbors, t))]

\* processLsa / processLsp on the fields e of an engine
AfterRecord(e, payload) ==
  IF \/ payload.routerId \notin KeysOf(e.lsdb)
     \/ payload.sequenceNumber > Get(e.lsdb, payload.routerId).sequenceNumber
    THEN LET lsdb == Set(e.lsdb, payload.routerId, payload) IN
           [e EXCEPT !.lsdb = lsdb,
                     !.routingTable = recomputeRoutes(lsdb, LocalName, e.protocol)]
    ELSE e

\* the sendPacket calls of processHello (through floodLsa / floodLsp) on the
\* fields e of an engine
SentByHello(e, ingress, t) ==
  LET neighbors == Set(e.neighbors, ingress, TRUE) IN
    Flood(neighbors, e.protocol, LocalRecord(e.protocol, neighbors, t))

\* the sendPacket calls of processLsa / processLsp on the fields e of an engine
SentByRecord(e, payload) ==
  IF \/ payload.routerId \notin KeysOf(e.lsdb)
     \/ payload.sequenceNumber > Get(e.lsdb, payload.routerId).sequenceNumber
    THEN Flood(e.neighbors, e.protocol, payload)
    ELSE <<>>

\* the sendPacket calls of handleInterfaceChange(event) on the fields e of an
\* engine: the Hello of sendHello on "up"
SentByInterfaceChange(e, event) ==
  IF event.status = "up"
    THEN <<[interfaceId |-> event.interfaceId,
            packet |-> [type |-> HelloType(e.protocol),
                        payload |-> [routerId |-> LocalName,
                                     interfaceId |-> event.interfaceId]]]>>
    ELSE <<>>

\* the two runs start from init of an engine of the same protocol; now holds
\* the clock of each run and sent the sendPacket calls of each run's last
\* handler
InitReplay ==
  /\ devices = [d \in {} |-> NewDevice(d)]
  /\ links = {}
  /\ intfObjs = <<>>
  /\ linkObjs = <<>>
  /\ \E proto \in LinkStateProtocols :
       engineObjs = [run \in 1..2 |-> NewLinkState(proto)]
  /\ rib = <<>>
  /\ staticRoutes = <<>>
  /\ ripTable = <<>>
  /\ ls = NewLinkState("ospf")
  /\ now = <<1, 1>>
  /\ sent = <<<<>>, <<>>>>
  /\ arg = <<>>
  /\ bgp = NewBgp
  /\ timers = {}
  /\ last = "init"

\* handlePacket with a Hello, in both runs: each run reads its own clock
Replay_handleHello ==
  \E ingress \in IfNames :
    \E t \in [1..2 -> 1..MaxClock] :
      /\ \A run \in 1..2 : t[run] >= now[run]
      /\ engineObjs' = [run \in 1..2 |->
                          AfterHello(engineObjs[run], ingress, t[run])]
      /\ sent' = [run \in 1..2 |->
                    SentByHello(engineObjs[run], ingress, t[run])]
      /\ now' = t
      /\ last' = "handlePacket"
      /\ arg' = [packet |-> [type |-> HelloType(engineObjs[1].protocol),
                             payload |-> [routerId |-> "R2"]],
                 ingress |-> ingress]
      /\ UNCHANGED <<devices, links, intfObjs, linkObjs, rib, staticRoutes,
                     ripTable, ls, bgp, timers>>

\* handlePacket with a record, in both runs
Replay_handleRecord ==
  \E payload \in RibRecords :
    /\ engineObjs' = [run \in 1..2 |-> AfterRecord(engineObjs[run], payload)]
    /\ sent' = [run \in 1..2 |-> SentByRecord(engineObjs[run], payload)]
    /\ last' = "handlePacket"
    /\ arg' = [packet |-> [type |-> RecordType(engineObjs[1].protocol),
                           payload |-> payload],
               ingress |-> "eth0"]
    /\ UNCHANGED <<devices, links, intfObjs, linkObjs, rib, staticRoutes,
                   ripTable, ls, now, bgp, timers>>

\* handleInterfaceChange(event), in both runs
Replay_handleInterfaceChange ==
  \E event \in [interfaceId : IfNames, status : Statuses] :
    /\ engineObjs' = [run \in 1..2 |->
                        [engineObjs[run] EXCEPT
                           !.neighbors = Set(@, event.interfaceId, FALSE)]]
    /\ sent' = [run \in 1..2 |->
                  SentByInterfaceChange(engineObjs[run], event)]
    /\ last' = "handleInterfaceChange"
    /\ arg' = event
    /\ UNCHANGED <<devices, links, intfObjs, linkObjs, rib, staticRoutes,
                   ripTable, ls, now, bgp, timers>>

NextReplay ==
  \/ Replay_handleHello
  \/ Replay_handleRecord
  \/ Replay_handleInterfaceChange

SpecReplay == InitReplay /\ [][NextReplay]_vars

\* C29: two runs given the same sequence of events end in the same engine
\* and routing-table state.
C29_RunsAgree == engineObjs[1] = engineObjs[2]

\* ---- flooding on the line R1 - R2 - R3 ------------------------------------

\* handlePacket of the engine of R1 with the Hello of R2 on eth0: the local
\* record is stored and handed to device.sendPacket for every up neighbor,
\* which delivers nothing
Line_handleHello ==
  \E t \in now..MaxClock :
    LET e == LineEngine(LocalName) IN
      /\ engineObjs' = [engineObjs EXCEPT ![e] = AfterHello(@, "eth0", t)]
      /\ sent' = SentByHello(engineObjs[e], "eth0", t)
      /\ now' = t
      /\ last' = "handlePacket"
      /\ arg' = [packet |-> [type |-> HelloType(engineObjs[e].protocol),
                             payload |-> [routerId |-> "R2"]],
                 ingress |-> "eth0"]
      /\ UNCHANGED <<devices, links, intfObjs, linkObjs, rib, staticRoutes,
                     ripTable, ls, bgp, timers>>

NextFlood ==
  \/ NextLine
  \/ Line_handleHello

\* every call that can be made is made in the end
SpecFlood == InitLine /\ [][NextFlood]_vars /\ WF_vars(NextFlood)

\* C40: with both links up for good, whenever R1 has originated its record
\* the flooding ends with R2, the engine connected to R1, holding the record
\* R1 holds for itself.
C40_FloodingReachesNeighbors ==
  <>[]LineUp =>
    [](LocalName \in KeysOf(engineObjs[LineEngine(LocalName)].lsdb) =>
         <>(/\ LocalName \in KeysOf(engineObjs[LineEngine("R2")].lsdb)
            /\ Get(engineObjs[LineEngine("R2")].lsdb, LocalName)
                 = Get(engineObjs[LineEngine(LocalName)].lsdb, LocalName)))

\* ---- further properties of the link-state handlers ------------------------

\* the state follows a handlePacket call with a Hello of the engine's
\* protocol
HelloHandled ==
  last = "handlePacket" /\ arg.packet.type = HelloType(ls.protocol)

\* C32: an engine that accepts a record that arrived on interface I sends
\* it on every interface with an up neighbor other than I, and not on I.
C32_RefloodExceptIngress ==
  [][RecordHandled' =>
       LET p == arg'.packet.payload IN
         (\/ p.routerId \notin KeysOf(ls.lsdb)
          \/ p.sequenceNumber > Get(ls.lsdb, p.routerId).sequenceNumber) =>
           /\ {c.interfaceId : c \in Range(sent')}
                = Range(UpInterfaces(ls.neighbors)) \ {arg'.ingress}
           /\ \A c \in Range(sent') : c.packet.payload = p]_vars

\* C33: the local record stored after a Hello lists router ids, the id of
\* the router whose Hello made the interface a neighbor among them.
C33_LocalRecordListsRouterIds ==
  HelloHandled =>
    LET record == Get(ls.lsdb, LocalName) IN
      /\ "neighbors" \in DOMAIN record
      /\ Range(record.neighbors) \subseteq RouterIds
      /\ arg.packet.payload.routerId \in Range(record.neighbors)

\* C34: an up event leaves the interface not yet a neighbor and sends one
\* Hello with the local id on it; a Hello makes an interface a neighbor only
\* if an event was seen for it before, so not on an interface the engine
\* holds no state for.
C34_NeighborNeedsInit ==
  [][/\ (last' = "handleInterfaceChange" /\ arg'.status = "up") =>
          /\ Get(ls'.neighbors, arg'.interfaceId) = FALSE
          /\ Len(sent') = 1
          /\ sent'[1].interfaceId = arg'.interfaceId
          /\ sent'[1].packet.type = HelloType(ls.protocol)
          /\ sent'[1].packet.payload.routerId = LocalName
     /\ (HelloHandled' /\ arg'.ingress \notin KeysOf(ls.neighbors)) =>
          arg'.ingress \notin Range(UpInterfaces(ls'.neighbors))]_vars

\* C36: a Hello that re-originates the local record stores it with a
\* sequence number above the one stored before, and no packet lowers the
\* sequence number stored for any originator.
C36_SequenceNumbersIncrease ==
  [][last' = "handlePacket" =>
       /\ (HelloHandled' /\ LocalName \in KeysOf(ls.lsdb)) =>
            Get(ls'.lsdb, LocalName).sequenceNumber
              > Get(ls.lsdb, LocalName).sequenceNumber
       /\ \A r \in KeysOf(ls.lsdb) :
            /\ r \in KeysOf(ls'.lsdb)
            /\ Get(ls'.lsdb, r).sequenceNumber
                 >= Get(ls.lsdb, r).sequenceNumber]_vars

\* ---- a link-state engine that learns the line R1 - R2 - R3 ----------------

\* the packets of the line: the Hello of R2, a record of the local router
\* that lists R2, the record of R2 that lists R3, the record of R3
LinePackets(proto) ==
  {[type |-> HelloType(proto), payload |-> [routerId |-> "R2"]]}
    \cup [type : {RecordType(proto)},
          payload :
            {[routerId |-> LocalName, neighbors |-> <<"R2">>,
              prefixes |-> <<>>, sequenceNumber |-> 1],
             [routerId |-> "R2", neighbors |-> <<LocalName, "R3">>,
              prefixes |-> <<PrefixOf("R2")>>, sequenceNumber |-> 1],
             [routerId |-> "R3", neighbors |-> <<"R2">>,
              prefixes |-> <<PrefixOf("R3")>>, sequenceNumber |-> 1]}]

NextOrigination ==
  \/ \E packet \in LinePackets(ls.protocol), ingress \in IfNames :
       LinkState_handle(packet, ingress)
  \/ LinkState_handleInterfaceChange

SpecOrigination == InitLinkState /\ [][NextOrigination]_vars

\* C38: the routing table of a link-state engine is the SPF result of its
\* current LSDB.
C38_TableIsSpfOfLsdb ==
  ls.routingTable = recomputeRoutes(ls.lsdb, LocalName, ls.protocol)

\* ---- packets of other types, and packets without an originator -----------

\* the packets a link-state engine of protocol proto is handed: its Hello
\* and a record of R2, a record whose payload has no routerId / systemId
\* (the field reads as undefined), and packets of other types
StrayLinkStatePackets(proto) ==
  LET other == CHOOSE q \in LinkStateProtocols : q # proto IN
    {[type |-> HelloType(proto), payload |-> [routerId |-> "R2"]],
     [type |-> RecordType(proto),
      payload |-> [routerId |-> "R2", neighbors |-> <<LocalName>>,
                   prefixes |-> <<PrefixOf("R2")>>, sequenceNumber |-> 1]],
     [type |-> RecordType(proto),
      payload |-> [routerId |-> Undefined, neighbors |-> <<>>,
                   prefixes |-> <<PrefixOf("R3")>>, sequenceNumber |-> 1]],
     [type |-> HelloType(other), payload |-> [routerId |-> "R2"]],
     [type |-> RecordType(other),
      payload |-> [routerId |-> "R2", neighbors |-> <<LocalName>>,
                   prefixes |-> <<PrefixOf("R2")>>, sequenceNumber |-> 1]],
     [type |-> "bgp-open", payload |-> [peerId |-> "R2"]]}

\* the packets a BGP engine is handed: an Open and an Update of R2, an Open,
\* a Keepalive and an Update whose payload has no peerId (the field reads as
\* undefined), and packets of other types, the 'bgp' packet of the test
\* 'should process a BGP OPEN message without errors' among them
StrayBgpPackets ==
  {[type |-> "bgp-open", payload |-> [peerId |-> "R2"]],
   [type |-> "bgp-update",
    payload |-> [peerId |-> "R2",
                 routes |-> <<[prefix |-> PrefixOf("R2"), nextHop |-> "R2"]>>]],
   [type |-> "bgp-open", payload |-> [peerId |-> Undefined]],
   [type |-> "bgp-keepalive", payload |-> [peerId |-> Undefined]],
   [type |-> "bgp-update",
    payload |-> [peerId |-> Undefined,
                 routes |-> <<[prefix |-> PrefixOf("R3"), nextHop |-> "R3"]>>]],
   [type |-> "bgp", payload |-> [type |-> "OPEN", routerId |-> "1.1.1.1"]],
   [type |-> "ospf-hello", payload |-> [routerId |-> "R2"]]}

\* a link-state engine and a BGP engine, each handed its packets
NextStray ==
  \/ \E packet \in StrayLinkStatePackets(ls.protocol) :
       LinkState_handle(packet, "eth0")
  \/ \E packet \in StrayBgpPackets :
       Bgp_handle(packet, "eth0")

SpecStray == InitLinkState /\ [][NextStray]_vars

\* the message types the BGP engine recognizes
BgpTypes == {"bgp-open", "bgp-keepalive", "bgp-update"}

\* C31: a record without originator id, and an Open, Keepalive or Update
\* without peer id, is dropped: the engine's state is unchanged and nothing
\* is sent.
C31_MalformedDropped ==
  [][/\ (/\ last' = "handlePacket"
         /\ arg'.packet.type = RecordType(ls.protocol)
         /\ arg'.packet.payload.routerId = Undefined) =>
          ls' = ls /\ sent' = <<>>
     /\ (/\ last' = "bgp.handlePacket"
         /\ arg'.packet.type \in BgpTypes
         /\ arg'.packet.payload.peerId = Undefined) =>
          bgp' = bgp /\ timers' = timers /\ sent' = <<>>]_vars

\* C37: handlePacket with a packet of a type the engine does not recognize
\* leaves the engine's neighbors or peers, its databases, its table and its
\* timers unchanged and sends nothing.
C37_UnrecognizedIgnored ==
  [][/\ (/\ last' = "handlePacket"
         /\ arg'.packet.type
              \notin {HelloType(ls.protocol), RecordType(ls.protocol)}) =>
          ls' = ls /\ sent' = <<>>
     /\ (/\ last' = "bgp.handlePacket"
         /\ arg'.packet.type \notin BgpTypes) =>
          bgp' = bgp /\ timers' = timers /\ sent' = <<>>]_vars

\* a packet of another type has been handled by a link-state engine that
\* has an up neighbor and routes, next to a BGP engine with a peer and a
\* route: nothing was sent
C37_Witness ==
  /\ last = "handlePacket"
  /\ arg.packet.type \notin {HelloType(ls.protocol), RecordType(ls.protocol)}
  /\ UpInterfaces(ls.neighbors) # <<>>
  /\ ls.routingTable # <<>>
  /\ bgp.peers # <<>>
  /\ bgp.routingTable # <<>>
  /\ sent = <<>>

\* ---- further properties of the BGP sessions -------------------------------

\* C35: every peer with a non-empty Adj-RIB-In list is a peer whose session
\* is Established.
C35_RoutesOnlyFromEstablished ==
  \A k \in 1..Len(bgp.adjRibIn) :
    bgp.adjRibIn[k].val # <<>> =>
      /\ bgp.adjRibIn[k].key \in KeysOf(bgp.peers)
      /\ Get(bgp.peers, bgp.adjRibIn[k].key).state = "Established"

\* C39: at most one hold timer and at most one keepalive timer is pending
\* for each peer.
C39_OneTimerPerPeer ==
  \A p \in BgpPeers, kind \in {"hold", "keepalive"} :
    Cardinality({t \in timers : t.peerId = p /\ t.kind = kind}) <= 1

====
